---- MODULE Spec2Model ----
(***************************************************************************)
(* Model of the pxls log converter (convert/src/io/pxls.rs and             *)
(* convert/src/main.rs).                                                   *)
(*                                                                         *)
(* Bytes are the integers 0..255.  A u16 is a natural below 2^16.  A u32   *)
(* is kept as two 16-bit limbs [hi, lo] (value hi * 2^16 + lo) and an i64  *)
(* millisecond timestamp as [sec, ms] (value sec * 1000 + ms), because the *)
(* model checker's integers are 32 bits wide.                              *)
(***************************************************************************)
EXTENDS Integers, Sequences, FiniteSets, TLC

VARIABLES
  overflow_checks, \* build profile: TRUE when arithmetic overflow panics (debug)
  stdin,           \* the bytes of the input stream
  rdr,             \* number of bytes of stdin consumed by read_until
  lines,           \* read_from's accumulator, then file.lines
  calls,           \* the slices handed to parse_bytes so far, in order
  file,            \* what read_from returned, NotYet before it returns
  size,            \* main's size pair
  k,               \* index of the event the current loop of main is at
  hdr,             \* TRUE once write_header has written the header
  out,             \* the records handed to the codec / writer, in order
  err,             \* the error main returned
  pc,              \* position in main
  record,          \* round-trip harness: the record under test
  decoded,         \* round-trip harness: parse_bytes(record)
  encoded,         \* round-trip harness: to_string of the decoded line
  again,           \* round-trip harness: parse_bytes(encoded)
  cpc              \* round-trip harness: position

vars == <<overflow_checks, stdin, rdr, lines, calls, file, size, k, hdr, out, err, pc,
          record, decoded, encoded, again, cpc>>
mainVars == <<overflow_checks, stdin, rdr, lines, calls, file, size, k, hdr, out, err, pc>>
codecVars == <<record, decoded, encoded, again, cpc>>

---------------------------------------------------------------------------
(* Bytes and text constants                                                *)

TAB == 9
LF == 10
PLUS == 43
MINUS == 45
SPACE == 32
COMMA == 44
COLON == 58
ZERO == 48
LIMB == 2^16
SHA256_LEN == 64

\* "user place"
LabelPlace == <<117, 115, 101, 114, 32, 112, 108, 97, 99, 101>>
\* "user undo"
LabelUndo == <<117, 115, 101, 114, 32, 117, 110, 100, 111>>
\* "mod overwrite"
LabelModOverwrite == <<109, 111, 100, 32, 111, 118, 101, 114, 119, 114, 105, 116, 101>>
\* "rollback undo"
LabelRollbackUndo == <<114, 111, 108, 108, 98, 97, 99, 107, 32, 117, 110, 100, 111>>
\* "rollback"
LabelRollback == <<114, 111, 108, 108, 98, 97, 99, 107>>
\* "console nuke"
LabelNuke == <<99, 111, 110, 115, 111, 108, 101, 32, 110, 117, 107, 101>>

\* The six variants of enum PxlsAction.
PxlsAction == {"Place", "Undo", "Rollback", "RollbackUndo", "Overwrite", "Nuke"}

---------------------------------------------------------------------------
(* Results: Ok(v) and Err(e).  An error is the anyhow value: its kind and  *)
(* the text the message quotes (empty when the message quotes nothing).    *)

Ok(v) == [ok |-> TRUE, val |-> v]
NoError == [kind |-> "none", detail |-> <<>>]
NotYet == [ok |-> FALSE, err |-> NoError]
Error(kind, detail) == [ok |-> FALSE, err |-> [kind |-> kind, detail |-> detail]]

IsDigit(b) == b >= ZERO /\ b <= ZERO + 9

\* The length of the UTF-8 sequence a lead byte opens, 0 for a byte that
\* opens none.
Utf8Width(b) ==
  IF b < 128 THEN 1
  ELSE IF b >= 194 /\ b <= 223 THEN 2
  ELSE IF b >= 224 /\ b <= 239 THEN 3
  ELSE IF b >= 240 /\ b <= 244 THEN 4
  ELSE 0

Utf8Cont(b) == b >= 128 /\ b <= 191

\* The narrower range of the byte that follows the lead bytes E0, ED, F0, F4.
Utf8Second(lead, b) ==
  /\ Utf8Cont(b)
  /\ lead = 224 => b >= 160
  /\ lead = 237 => b <= 159
  /\ lead = 240 => b >= 144
  /\ lead = 244 => b <= 143

\* std::str::from_utf8 / String::from_utf8: TRUE iff the bytes are
\* well-formed UTF-8, that is every byte is either a lead byte followed by
\* its continuation bytes or a continuation byte of the lead before it.
Utf8Valid(data) ==
  LET n == Len(data)
      Opens(i) ==
        /\ Utf8Width(data[i]) > 0
        /\ i + Utf8Width(data[i]) - 1 <= n
        /\ \A j \in (i + 1)..(i + Utf8Width(data[i]) - 1) :
             IF j = i + 1 THEN Utf8Second(data[i], data[j]) ELSE Utf8Cont(data[j])
  IN \A i \in 1..n :
       IF Utf8Cont(data[i])
       THEN \E d \in 1..3 :
              /\ i - d >= 1
              /\ Utf8Width(data[i - d]) > d
              /\ \A j \in (i - d + 1)..(i - 1) : Utf8Cont(data[j])
       ELSE Opens(i)

\* The slices of data from index `from` on, cut at the positions in seps.
RECURSIVE SplitFrom(_, _, _)
SplitFrom(data, from, seps) ==
  LET ahead == {i \in seps : i >= from}
      cut == CHOOSE i \in ahead : \A j \in ahead : i <= j
  IN IF ahead = {} THEN <<SubSeq(data, from, Len(data))>>
     ELSE <<SubSeq(data, from, cut - 1)>> \o SplitFrom(data, cut + 1, seps)

\* data.split(|&b| b == b'\n' || b == b'\t'): the slices between separators
\* (n separators give n + 1 slices, empty ones included).
Split(data) ==
  SplitFrom(data, 1, {i \in 1..Len(data) : data[i] = LF \/ data[i] = TAB})

---------------------------------------------------------------------------
(* Integers                                                                *)

\* <uN as FromStr>::from_str on the digits after the optional sign: the
\* accumulator times ten plus the digit, failing once it leaves `bits` bits.
RECURSIVE ParseDigits(_, _, _, _)
ParseDigits(data, i, acc, bits) ==
  IF i > Len(data) THEN Ok(acc)
  ELSE IF ~IsDigit(data[i]) THEN Error("InvalidInteger", <<>>)
  ELSE LET lo10 == acc.lo * 10 + (data[i] - ZERO)
           hi10 == acc.hi * 10 + (lo10 \div LIMB)
           top == IF bits = 32 THEN LIMB ELSE 1
       IN IF hi10 >= top THEN Error("InvalidInteger", <<>>)
          ELSE ParseDigits(data, i + 1, [hi |-> hi10, lo |-> lo10 % LIMB], bits)

\* read_int::<u32> (bits = 32, a [hi, lo] pair) and read_int::<u16> (bits = 16,
\* a number).  An unsigned parse takes one leading '+', any number of leading
\* zeros, and at least one digit.
read_int(data, bits) ==
  IF ~Utf8Valid(data) THEN Error("InvalidEncoding", <<>>)
  ELSE LET digits == IF Len(data) > 0 /\ data[1] = PLUS
                     THEN SubSeq(data, 2, Len(data)) ELSE data
           r == ParseDigits(digits, 1, [hi |-> 0, lo |-> 0], bits)
       IN IF Len(digits) = 0 THEN Error("InvalidInteger", <<>>)
          ELSE IF ~r.ok THEN r
          ELSE IF bits = 32 THEN r ELSE Ok(r.val.lo)

\* Display for u16: decimal digits, no sign, no padding.
RECURSIVE FmtNat(_)
FmtNat(n) == IF n < 10 THEN <<ZERO + n>> ELSE Append(FmtNat(n \div 10), ZERO + (n % 10))

\* Display for u32, on the limb pair.
RECURSIVE FmtU32(_)
FmtU32(v) ==
  LET t == (v.hi % 10) * LIMB + v.lo
      q == [hi |-> v.hi \div 10, lo |-> t \div 10]
  IN IF v.hi = 0 /\ v.lo < 10 THEN <<ZERO + v.lo>>
     ELSE Append(FmtU32(q), ZERO + (t % 10))

\* n as exactly w zero-padded decimal digits.
RECURSIVE FmtPad(_, _)
FmtPad(n, w) == IF w = 0 THEN <<>> ELSE Append(FmtPad(n \div 10, w - 1), ZERO + (n % 10))

---------------------------------------------------------------------------
(* Timestamps: DATE_FMT = "%Y-%m-%d %H:%M:%S,%3f"                          *)

SECS_PER_DAY == 86400

IsLeapYear(y) == (y % 4 = 0 /\ y % 100 # 0) \/ y % 400 = 0

DaysInMonth(y, m) ==
  IF m = 2 THEN (IF IsLeapYear(y) THEN 29 ELSE 28)
  ELSE IF m \in {4, 6, 9, 11} THEN 30 ELSE 31

\* Days from 1970-01-01 to the civil date y-m-d (proleptic Gregorian).
DaysFromCivil(y, m, d) ==
  LET yy == IF m <= 2 THEN y - 1 ELSE y
      era == yy \div 400
      yoe == yy - era * 400
      mp == IF m > 2 THEN m - 3 ELSE m + 9
      doy == (153 * mp + 2) \div 5 + d - 1
      doe == yoe * 365 + yoe \div 4 - yoe \div 100 + doy
  IN era * 146097 + doe - 719468

\* The civil date of a day number, as [y, m, d].
CivilFromDays(days) ==
  LET z == days + 719468
      era == z \div 146097
      doe == z - era * 146097
      yoe == (doe - doe \div 1460 + doe \div 36524 - doe \div 146096) \div 365
      doy == doe - (365 * yoe + yoe \div 4 - yoe \div 100)
      mp == (5 * doy + 2) \div 153
      m == IF mp < 10 THEN mp + 3 ELSE mp - 9
  IN [y |-> yoe + era * 400 + (IF m <= 2 THEN 1 ELSE 0),
      m |-> m,
      d |-> doy - (153 * mp + 2) \div 5 + 1]

\* The number spelled by the digits data[i..j].
RECURSIVE Num(_, _, _)
Num(data, i, j) == IF j < i THEN 0 ELSE Num(data, i, j - 1) * 10 + (data[j] - ZERO)

\* NaiveDateTime::parse_from_str(text, DATE_FMT) followed by
\* and_utc().timestamp_millis(), for the fixed-width spelling
\* YYYY-MM-DD HH:MM:SS,mmm.  A text of any other length, with another
\* separator, or naming no calendar date or time of day, fails.  Second 60
\* (a leap second) is read as second 59 plus 1000 ms.
ParseTime(data) ==
  LET digitsAt == {1, 2, 3, 4, 6, 7, 9, 10, 12, 13, 15, 16, 18, 19, 21, 22, 23}
      y == Num(data, 1, 4)
      mo == Num(data, 6, 7)
      d == Num(data, 9, 10)
      h == Num(data, 12, 13)
      mi == Num(data, 15, 16)
      s == Num(data, 18, 19)
      ms == Num(data, 21, 23)
      sec == DaysFromCivil(y, mo, d) * SECS_PER_DAY + h * 3600 + mi * 60 + s
  IN IF Len(data) # 23 THEN Error("InvalidTimestamp", <<>>)
     ELSE IF \/ \E i \in digitsAt : ~IsDigit(data[i])
             \/ data[5] # MINUS \/ data[8] # MINUS \/ data[11] # SPACE
             \/ data[14] # COLON \/ data[17] # COLON \/ data[20] # COMMA
          THEN Error("InvalidTimestamp", <<>>)
     ELSE IF \/ mo < 1 \/ mo > 12 \/ d < 1 \/ d > DaysInMonth(y, mo)
             \/ h > 23 \/ mi > 59 \/ s > 60
          THEN Error("InvalidTimestamp", <<>>)
     ELSE Ok([sec |-> sec, ms |-> ms])

read_time(data) ==
  IF ~Utf8Valid(data) THEN Error("InvalidEncoding", <<>>) ELSE ParseTime(data)

\* DateTime::from_timestamp_millis(time).unwrap().format(DATE_FMT)
FormatTime(time) ==
  LET days == time.sec \div SECS_PER_DAY
      sod == time.sec % SECS_PER_DAY
      c == CivilFromDays(days)
  IN FmtPad(c.y, 4) \o <<MINUS>> \o FmtPad(c.m, 2) \o <<MINUS>> \o FmtPad(c.d, 2)
       \o <<SPACE>> \o FmtPad(sod \div 3600, 2) \o <<COLON>>
       \o FmtPad((sod % 3600) \div 60, 2) \o <<COLON>> \o FmtPad(sod % 60, 2)
       \o <<COMMA>> \o FmtPad(time.ms, 3)

---------------------------------------------------------------------------
(* Identity and action fields                                              *)

read_userid(data) ==
  IF ~Utf8Valid(data) THEN Error("InvalidEncoding", <<>>)
  ELSE IF Len(data) = SHA256_LEN THEN Ok([tag |-> "Sha256", id |-> data])
  ELSE Ok([tag |-> "Username", id |-> data])

\* PxlsUserId::as_str and its Display
as_str(id) == id.id

read_action(data) ==
  IF ~Utf8Valid(data) THEN Error("InvalidEncoding", <<>>)
  ELSE IF data = LabelPlace THEN Ok("Place")
  ELSE IF data = LabelUndo THEN Ok("Undo")
  ELSE IF data = LabelModOverwrite THEN Ok("Overwrite")
  ELSE IF data = LabelRollbackUndo THEN Ok("RollbackUndo")
  ELSE IF data = LabelRollback THEN Ok("Rollback")
  ELSE IF data = LabelNuke THEN Ok("Nuke")
  ELSE Error("UnknownAction", data)

\* impl Display for PxlsAction
ActionLabel(action) ==
  CASE action = "Place" -> LabelPlace
    [] action = "Undo" -> LabelUndo
    [] action = "Rollback" -> LabelModOverwrite
    [] action = "RollbackUndo" -> LabelRollbackUndo
    [] action = "Overwrite" -> LabelRollback
    [] action = "Nuke" -> LabelNuke

---------------------------------------------------------------------------
(* One record                                                              *)

\* The result of reading the i-th field (1 time, 2 identity, 3 x, 4 y,
\* 5 index, 6 action) from the slice f.
ReadField(i, f) ==
  CASE i = 1 -> read_time(f)
    [] i = 2 -> read_userid(f)
    [] i = 3 -> read_int(f, 32)
    [] i = 4 -> read_int(f, 32)
    [] i = 5 -> read_int(f, 16)
    [] i = 6 -> read_action(f)

\* The line the six decoded fields make.
LineOf(bytes) ==
  [time |-> ReadField(1, bytes[1]).val,
   pos |-> <<ReadField(3, bytes[3]).val, ReadField(4, bytes[4]).val>>,
   index |-> ReadField(5, bytes[5]).val,
   action |-> ReadField(6, bytes[6]).val,
   id |-> ReadField(2, bytes[2]).val]

\* The first of the fields 1..upto of bytes that fails to decode, 0 if none.
FirstBadField(bytes, upto) ==
  LET bad == {i \in 1..upto : ~ReadField(i, bytes[i]).ok}
  IN IF bad = {} THEN 0 ELSE CHOOSE i \in bad : \A j \in bad : i <= j

\* parse_bytes as it would be if it counted the fields before reading any.
parse_bytes_count_first(data) ==
  LET bytes == Split(data)
      n == Len(bytes)
      b == FirstBadField(bytes, 6)
  IN IF n < 6 THEN Error("UnexpectedEof", <<>>)
     ELSE IF b # 0 THEN ReadField(b, bytes[b])
     ELSE IF n >= 7 /\ bytes[7] # <<>> THEN Error("TrailingData", bytes[7])
     ELSE Ok(LineOf(bytes))

\* parse_bytes as it would be if it looked at every slice after the sixth.
parse_bytes_all_trailing(data) ==
  LET bytes == Split(data)
      n == Len(bytes)
      m == IF n < 6 THEN n ELSE 6
      b == FirstBadField(bytes, m)
      extra == {i \in 7..n : bytes[i] # <<>>}
  IN IF b # 0 THEN ReadField(b, bytes[b])
     ELSE IF n < 6 THEN Error("UnexpectedEof", <<>>)
     ELSE IF extra # {}
          THEN Error("TrailingData", bytes[CHOOSE i \in extra : \A j \in extra : i <= j])
     ELSE Ok(LineOf(bytes))

\* PxlsLine::parse_bytes.  The fields are read in order and the first
\* failure is returned; a field that is not there is "unexpected eof".
parse_bytes(data) ==
  LET bytes == Split(data)
      n == Len(bytes)
      eof == Error("UnexpectedEof", <<>>)
      time == IF n >= 1 THEN read_time(bytes[1]) ELSE eof
      id == IF n >= 2 THEN read_userid(bytes[2]) ELSE eof
      x == IF n >= 3 THEN read_int(bytes[3], 32) ELSE eof
      y == IF n >= 4 THEN read_int(bytes[4], 32) ELSE eof
      index == IF n >= 5 THEN read_int(bytes[5], 16) ELSE eof
      action == IF n >= 6 THEN read_action(bytes[6]) ELSE eof
  IN IF ~time.ok THEN time
     ELSE IF ~id.ok THEN id
     ELSE IF ~x.ok THEN x
     ELSE IF ~y.ok THEN y
     ELSE IF ~index.ok THEN index
     ELSE IF ~action.ok THEN action
     ELSE IF n >= 7 /\ bytes[7] # <<>> THEN Error("TrailingData", bytes[7])
     ELSE Ok([time |-> time.val, pos |-> <<x.val, y.val>>, index |-> index.val,
              action |-> action.val, id |-> id.val])

\* impl Display for PxlsLine
to_string(line) ==
  FormatTime(line.time) \o <<TAB>> \o as_str(line.id) \o <<TAB>>
    \o FmtU32(line.pos[1]) \o <<TAB>> \o FmtU32(line.pos[2]) \o <<TAB>>
    \o FmtNat(line.index) \o <<TAB>> \o ActionLabel(line.action)

---------------------------------------------------------------------------
(* u32 arithmetic of main                                                  *)

U32(hi, lo) == [hi |-> hi, lo |-> lo]
U32_MAX == U32(LIMB - 1, LIMB - 1)

U32Less(a, b) == a.hi < b.hi \/ (a.hi = b.hi /\ a.lo < b.lo)

\* Ord::max on u32
U32Max(a, b) == IF U32Less(a, b) THEN b ELSE a

\* a + 1 on u32 where it does not overflow
U32Succ(a) == IF a.lo = LIMB - 1 THEN U32(a.hi + 1, 0) ELSE U32(a.hi, a.lo + 1)

\* `a + 1` on u32: Ok(sum), or with a = u32::MAX a panic under
\* overflow-checks and the wrapped sum 0 without.
U32AddOne(a, checks) ==
  IF a = U32_MAX THEN (IF checks THEN Error("Panic", <<>>) ELSE Ok(U32(0, 0)))
  ELSE Ok(U32Succ(a))

\* `a + 1` on u16, likewise.
U16AddOne(a, checks) ==
  IF a = LIMB - 1 THEN (IF checks THEN Error("Panic", <<>>) ELSE Ok(0))
  ELSE Ok(a + 1)

\* main.rs line 103
color_index(index, checks) == IF index = 255 THEN Ok(0) ELSE U16AddOne(index, checks)

---------------------------------------------------------------------------
(* Inputs                                                                  *)

\* The decimal text of a sequence of digit values.
Dec(ds) == [i \in 1..Len(ds) |-> ZERO + ds[i]]

\* "2021-03-19 08:03:47,016"
TIME_A ==
  <<50, 48, 50, 49, 45, 48, 51, 45, 49, 57, 32, 48, 56, 58, 48, 51, 58, 52, 55, 44, 48, 49, 54>>
\* "2024-01-21 01:30:47,016"
TIME_B ==
  <<50, 48, 50, 52, 45, 48, 49, 45, 50, 49, 32, 48, 49, 58, 51, 48, 58, 52, 55, 44, 48, 49, 54>>
\* "2021-03-19 08:03:47,01" (two millisecond digits)
TIME_SHORT_MS ==
  <<50, 48, 50, 49, 45, 48, 51, 45, 49, 57, 32, 48, 56, 58, 48, 51, 58, 52, 55, 44, 48, 49>>
\* "982b5ed74632b00ad8d75ae4995117b5f93ac9432fe1a3c73444132fc0e1248f"
ID_SHA ==
  <<57, 56, 50, 98, 53, 101, 100, 55, 52, 54, 51, 50, 98, 48, 48, 97, 100, 56, 100, 55,
    53, 97, 101, 52, 57, 57, 53, 49, 49, 55, 98, 53, 102, 57, 51, 97, 99, 57, 52, 51,
    50, 102, 101, 49, 97, 51, 99, 55, 51, 52, 52, 52, 49, 51, 50, 102, 99, 48, 101, 49,
    50, 52, 56, 102>>
\* "Etos2"
ID_NAME == <<69, 116, 111, 115, 50>>
\* "nuke"
LabelShort == <<110, 117, 107, 101>>
\* a byte that occurs in no UTF-8 text
BAD_BYTE == <<255>>

\* The fields joined by the separator sep.
RECURSIVE Join(_, _)
Join(fields, sep) ==
  IF Len(fields) = 0 THEN <<>>
  ELSE IF Len(fields) = 1 THEN fields[1]
  ELSE fields[1] \o <<sep>> \o Join(Tail(fields), sep)

\* The two records of the unit tests.
LINE_SHA == Join(<<TIME_A, ID_SHA, Dec(<<7, 7, 3>>), Dec(<<1, 7, 6, 1>>), Dec(<<4>>), LabelUndo>>, TAB)
LINE_NAME == Join(<<TIME_B, ID_NAME, Dec(<<4, 3>>), Dec(<<2, 1>>), Dec(<<3>>), LabelNuke>>, TAB)

\* Further records a log may hold: palette index 255, the largest palette
\* index, the largest x coordinate; a record of five fields and one with
\* the action "nuke".
LINE_255 == Join(<<TIME_B, ID_NAME, Dec(<<0>>), Dec(<<0>>), Dec(<<2, 5, 5>>), LabelPlace>>, TAB)
LINE_IDX_MAX == Join(<<TIME_B, ID_NAME, Dec(<<4, 3>>), Dec(<<2, 1>>), Dec(<<6, 5, 5, 3, 5>>), LabelPlace>>, TAB)
LINE_X_MAX ==
  Join(<<TIME_B, ID_NAME, Dec(<<4, 2, 9, 4, 9, 6, 7, 2, 9, 5>>), Dec(<<2, 1>>), Dec(<<3>>), LabelPlace>>, TAB)
LINE_FIVE == Join(<<TIME_B, ID_NAME, Dec(<<4, 3>>), Dec(<<2, 1>>), Dec(<<3>>)>>, TAB)
LINE_NUKE == Join(<<TIME_B, ID_NAME, Dec(<<4, 3>>), Dec(<<2, 1>>), Dec(<<3>>), LabelShort>>, TAB)

LogRecords == {LINE_SHA, LINE_NAME, LINE_255, LINE_IDX_MAX, LINE_X_MAX, LINE_FIVE, LINE_NUKE}

\* Largest number of records in a modelled stream.
MaxRecords == 3

\* The records each followed by a line feed, the last one only if lastLF.
RECURSIVE Concat(_, _)
Concat(recs, lastLF) ==
  IF Len(recs) = 0 THEN <<>>
  ELSE IF Len(recs) = 1 THEN (IF lastLF THEN recs[1] \o <<LF>> ELSE recs[1])
  ELSE recs[1] \o <<LF>> \o Concat(Tail(recs), lastLF)

Streams ==
  {Concat(recs, lastLF) :
     recs \in UNION {[1..n -> LogRecords] : n \in 0..MaxRecords}, lastLF \in BOOLEAN}

---------------------------------------------------------------------------
(* The converter: main and PxlsFile::read_from                             *)

\* rdr.read_until(b'\n', &mut dyn_buf) on a stream of which pos bytes are
\* consumed: the bytes up to and including the next line feed, or to the end.
ReadUntil(stream, pos) ==
  LET feeds == {i \in (pos + 1)..Len(stream) : stream[i] = LF}
      stop == IF feeds = {} THEN Len(stream)
              ELSE CHOOSE i \in feeds : \A j \in feeds : i <= j
  IN SubSeq(stream, pos + 1, stop)

HarnessOff ==
  /\ record = <<>>
  /\ decoded = NotYet
  /\ encoded = <<>>
  /\ again = NotYet
  /\ cpc = "off"

Init ==
  /\ overflow_checks \in BOOLEAN
  /\ stdin \in Streams
  /\ rdr = 0
  /\ lines = <<>>
  /\ calls = <<>>
  /\ file = NotYet
  /\ size = <<U32(0, 0), U32(0, 0)>>
  /\ k = 0
  /\ hdr = FALSE
  /\ out = <<>>
  /\ err = NoError
  /\ pc = "setup"
  /\ HarnessOff

\* main returns Err(e).
Fail(e) ==
  /\ err' = e
  /\ pc' = "failed"

\* main, lines 14-26: codec registration and opening the destination.
Setup ==
  /\ pc = "setup"
  /\ \E outcome \in {"ok", "register", "open"} :
       IF outcome = "ok"
       THEN pc' = "read_from" /\ err' = err
       ELSE Fail([kind |-> "Setup", detail |-> <<>>])
  /\ UNCHANGED <<overflow_checks, stdin, rdr, lines, calls, file, size, k, hdr, out>>
  /\ UNCHANGED codecVars

\* ReadLine as it would be if a record that fails to decode were dropped
\* and the reading went on.
ReadLine_SkipBad ==
  /\ pc = "read_from"
  /\ LET dyn_buf == ReadUntil(stdin, rdr)
         line == parse_bytes(dyn_buf)
     IN IF Len(dyn_buf) = 0
        THEN /\ file' = Ok(lines)
             /\ pc' = "check_empty"
             /\ UNCHANGED <<rdr, lines, calls, err>>
        ELSE /\ rdr' = rdr + Len(dyn_buf)
             /\ calls' = Append(calls, dyn_buf)
             /\ lines' = IF line.ok THEN Append(lines, line.val) ELSE lines
             /\ UNCHANGED <<file, err, pc>>
  /\ UNCHANGED <<overflow_checks, stdin, size, k, hdr, out>>
  /\ UNCHANGED codecVars

\* ReadLine as it would be if the error were given the number of the record
\* as context.
ReadLine_WithPosition ==
  /\ pc = "read_from"
  /\ LET dyn_buf == ReadUntil(stdin, rdr)
         line == parse_bytes(dyn_buf)
         located == [kind |-> line.err.kind, detail |-> line.err.detail,
                     record |-> Len(calls) + 1]
     IN IF Len(dyn_buf) = 0
        THEN /\ file' = Ok(lines)
             /\ pc' = "check_empty"
             /\ UNCHANGED <<rdr, lines, calls, err>>
        ELSE /\ rdr' = rdr + Len(dyn_buf)
             /\ calls' = Append(calls, dyn_buf)
             /\ IF line.ok
                THEN /\ lines' = Append(lines, line.val)
                     /\ UNCHANGED <<file, err, pc>>
                ELSE /\ lines' = <<>>
                     /\ file' = [ok |-> FALSE, err |-> located]
                     /\ Fail(located)
  /\ UNCHANGED <<overflow_checks, stdin, size, k, hdr, out>>
  /\ UNCHANGED codecVars

\* One turn of read_from's loop, its return, and main's `?` on the result.
ReadLine ==
  /\ pc = "read_from"
  /\ LET dyn_buf == ReadUntil(stdin, rdr)
         line == parse_bytes(dyn_buf)
     IN IF Len(dyn_buf) = 0
        THEN /\ file' = Ok(lines)
             /\ pc' = "check_empty"
             /\ UNCHANGED <<rdr, lines, calls, err>>
        ELSE /\ rdr' = rdr + Len(dyn_buf)
             /\ calls' = Append(calls, dyn_buf)
             /\ IF line.ok
                THEN /\ lines' = Append(lines, line.val)
                     /\ UNCHANGED <<file, err, pc>>
                ELSE /\ lines' = <<>>
                     /\ file' = [ok |-> FALSE, err |-> line.err]
                     /\ Fail(line.err)
  /\ UNCHANGED <<overflow_checks, stdin, size, k, hdr, out>>
  /\ UNCHANGED codecVars

\* main, lines 31-38.
CheckEmpty ==
  /\ pc = "check_empty"
  /\ IF Len(lines) = 0
     THEN Fail([kind |-> "EmptyLog", detail |-> <<>>]) /\ UNCHANGED <<size, k>>
     ELSE /\ size' = <<U32(0, 0), U32(0, 0)>>
          /\ k' = 1
          /\ pc' = "size"
          /\ err' = err
  /\ UNCHANGED <<overflow_checks, stdin, rdr, lines, calls, file, hdr, out>>
  /\ UNCHANGED codecVars

\* main, lines 39-42: one turn of the size loop.
Aggregate ==
  /\ pc = "size"
  /\ LET w == U32AddOne(lines[k].pos[1], overflow_checks)
         h == U32AddOne(lines[k].pos[2], overflow_checks)
     IN IF w.ok /\ h.ok
        THEN /\ size' = <<U32Max(size[1], w.val), U32Max(size[2], h.val)>>
             /\ IF k = Len(lines)
                THEN pc' = "write_header" /\ k' = k
                ELSE pc' = pc /\ k' = k + 1
        ELSE /\ pc' = "panicked_size"
             /\ UNCHANGED <<size, k>>
  /\ UNCHANGED <<overflow_checks, stdin, rdr, lines, calls, file, hdr, out, err>>
  /\ UNCHANGED codecVars

\* A write through wtr: it succeeds and control moves on, or main returns
\* the I/O error.
Written(wrote, then) ==
  IF wrote THEN pc' = then /\ err' = err
  ELSE Fail([kind |-> "Io", detail |-> <<>>])

\* main, line 57.
WriteHeader ==
  /\ pc = "write_header"
  /\ \E wrote \in BOOLEAN :
       /\ hdr' = wrote
       /\ Written(wrote, "write_meta")
  /\ UNCHANGED <<overflow_checks, stdin, rdr, lines, calls, file, size, k, out>>
  /\ UNCHANGED codecVars

\* main, lines 36-37, 46-52 and 59.
CanvasMeta ==
  [type |-> "CanvasMeta", size |-> size, time_start |-> lines[1].time,
   time_end |-> lines[Len(lines)].time, name |-> "c86", platform |-> "pxls.space"]

WriteMeta ==
  /\ pc = "write_meta"
  /\ \E wrote \in BOOLEAN :
       /\ out' = IF wrote THEN Append(out, CanvasMeta) ELSE out
       /\ Written(wrote, "write_palette")
  /\ UNCHANGED <<overflow_checks, stdin, rdr, lines, calls, file, size, k, hdr>>
  /\ UNCHANGED codecVars

\* main, lines 64-98.
PALETTE ==
  <<<<0, 0, 0, 0>>, <<255, 255, 255, 255>>, <<185, 179, 207, 255>>, <<119, 127, 140, 255>>,
    <<0, 0, 0, 255>>, <<56, 34, 21, 255>>, <<124, 63, 32, 255>>, <<192, 111, 55, 255>>,
    <<254, 173, 108, 255>>, <<255, 210, 177, 255>>, <<255, 164, 208, 255>>, <<241, 79, 180, 255>>,
    <<233, 115, 255, 255>>, <<166, 48, 210, 255>>, <<83, 29, 140, 255>>, <<36, 35, 103, 255>>,
    <<3, 52, 191, 255>>, <<20, 156, 255, 255>>, <<141, 245, 255, 255>>, <<1, 191, 165, 255>>,
    <<22, 119, 126, 255>>, <<5, 69, 35, 255>>, <<24, 134, 47, 255>>, <<97, 224, 33, 255>>,
    <<177, 255, 55, 255>>, <<255, 255, 165, 255>>, <<253, 225, 17, 255>>, <<255, 159, 23, 255>>,
    <<246, 110, 8, 255>>, <<85, 0, 34, 255>>, <<153, 1, 26, 255>>, <<243, 15, 12, 255>>,
    <<255, 120, 114, 255>>>>

WritePalette ==
  /\ pc = "write_palette"
  /\ \E wrote \in BOOLEAN :
       /\ out' = IF wrote
                 THEN Append(out, [type |-> "PaletteChunk", offset |-> 0, colors |-> PALETTE])
                 ELSE out
       /\ k' = IF wrote THEN 1 ELSE k
       /\ Written(wrote, "write_placement")
  /\ UNCHANGED <<overflow_checks, stdin, rdr, lines, calls, file, size, hdr>>
  /\ UNCHANGED codecVars

\* main, lines 103-110: the colour index, the placement and its write.
WritePlacement ==
  /\ pc = "write_placement"
  /\ LET c == color_index(lines[k].index, overflow_checks)
     IN IF c.ok
        THEN \E wrote \in BOOLEAN :
               /\ out' = IF wrote
                         THEN Append(out, [type |-> "Placement", pos |-> lines[k].pos,
                                           time |-> lines[k].time, color_index |-> c.val])
                         ELSE out
               /\ Written(wrote, "write_id")
        ELSE /\ pc' = "panicked_color_index"
             /\ UNCHANGED <<out, err>>
  /\ UNCHANGED <<overflow_checks, stdin, rdr, lines, calls, file, size, k, hdr>>
  /\ UNCHANGED codecVars

\* main, lines 109 and 111, and the loop's step to the next event.
WriteMetaId ==
  /\ pc = "write_id"
  /\ \E wrote \in BOOLEAN :
       /\ out' = IF wrote
                 THEN Append(out, [type |-> "MetaId", id |-> as_str(lines[k].id)])
                 ELSE out
       /\ k' = IF wrote /\ k < Len(lines) THEN k + 1 ELSE k
       /\ Written(wrote, IF k < Len(lines) THEN "write_placement" ELSE "write_eos")
  /\ UNCHANGED <<overflow_checks, stdin, rdr, lines, calls, file, size, hdr>>
  /\ UNCHANGED codecVars

\* main, lines 115-118.
WriteEos ==
  /\ pc = "write_eos"
  /\ \E wrote \in BOOLEAN :
       /\ out' = IF wrote THEN Append(out, [type |-> "Eos"]) ELSE out
       /\ Written(wrote, "done")
  /\ UNCHANGED <<overflow_checks, stdin, rdr, lines, calls, file, size, k, hdr>>
  /\ UNCHANGED codecVars

Next ==
  \/ Setup
  \/ ReadLine
  \/ CheckEmpty
  \/ Aggregate
  \/ WriteHeader
  \/ WriteMeta
  \/ WritePalette
  \/ WritePlacement
  \/ WriteMetaId
  \/ WriteEos

Spec == Init /\ [][Next]_vars

---------------------------------------------------------------------------
(* The round trip of one record, as test_display makes it: parse_bytes,    *)
(* to_string, and parse_bytes of the string                                *)

\* "x", a byte that is no separator
JUNK == Head(<<120>>)

CodecTimes == {TIME_A, TIME_B, TIME_SHORT_MS}
CodecIds == {ID_SHA, ID_NAME, BAD_BYTE}
CodecXs ==
  {Dec(<<7, 7, 3>>), Dec(<<0, 0, 7>>), <<PLUS, ZERO + 5>>,
   Dec(<<4, 2, 9, 4, 9, 6, 7, 2, 9, 5>>), Dec(<<4, 2, 9, 4, 9, 6, 7, 2, 9, 6>>)}
CodecYs == {Dec(<<2, 1>>), <<JUNK>>}
CodecIndexes == {Dec(<<4>>), Dec(<<2, 5, 5>>), Dec(<<6, 5, 5, 3, 5>>), Dec(<<6, 5, 5, 3, 6>>)}
CodecActions ==
  {LabelPlace, LabelUndo, LabelModOverwrite, LabelRollbackUndo, LabelRollback, LabelNuke,
   LabelShort, <<>>}

\* Records of six tab-separated fields, each field from its set.
SixFieldRecords ==
  {Join(<<t, id, x, y, idx, a>>, TAB) :
     t \in CodecTimes, id \in CodecIds, x \in CodecXs, y \in CodecYs,
     idx \in CodecIndexes, a \in CodecActions}

\* Longest run of bytes put after the fields of a record.
MaxTail == 3

Tails == UNION {[1..n -> {TAB, LF, JUNK}] : n \in 0..MaxTail}

FieldsGood == <<TIME_B, ID_NAME, Dec(<<4, 3>>), Dec(<<2, 1>>), Dec(<<3>>), LabelNuke>>
FieldsBadTime == <<TIME_SHORT_MS, ID_NAME, Dec(<<4, 3>>), Dec(<<2, 1>>), Dec(<<3>>), LabelNuke>>

\* The first n fields of a record, joined by tabs or by line feeds, and a tail.
ShapedRecords ==
  {Join(SubSeq(fields, 1, n), sep) \o tail :
     fields \in {FieldsGood, FieldsBadTime}, n \in 0..6, sep \in {TAB, LF}, tail \in Tails}

CodecInputs == SixFieldRecords \cup ShapedRecords

MainOff ==
  /\ overflow_checks = FALSE
  /\ stdin = <<>>
  /\ rdr = 0
  /\ lines = <<>>
  /\ calls = <<>>
  /\ file = NotYet
  /\ size = <<U32(0, 0), U32(0, 0)>>
  /\ k = 0
  /\ hdr = FALSE
  /\ out = <<>>
  /\ err = NoError
  /\ pc = "off"

InitCodec ==
  /\ record \in CodecInputs
  /\ decoded = NotYet
  /\ encoded = <<>>
  /\ again = NotYet
  /\ cpc = "start"
  /\ MainOff

\* let output = PxlsLine::parse_bytes(data)
Decode ==
  /\ cpc = "start"
  /\ decoded' = parse_bytes(record)
  /\ cpc' = "decoded"
  /\ UNCHANGED <<record, encoded, again>>
  /\ UNCHANGED mainVars

\* output.to_string(), reached when parse_bytes returned Ok
Encode ==
  /\ cpc = "decoded"
  /\ decoded.ok
  /\ encoded' = to_string(decoded.val)
  /\ cpc' = "encoded"
  /\ UNCHANGED <<record, decoded, again>>
  /\ UNCHANGED mainVars

\* PxlsLine::parse_bytes of the encoded line
Redecode ==
  /\ cpc = "encoded"
  /\ again' = parse_bytes(encoded)
  /\ cpc' = "redecoded"
  /\ UNCHANGED <<record, decoded, encoded>>
  /\ UNCHANGED mainVars

NextCodec ==
  \/ Decode
  \/ Encode
  \/ Redecode

SpecCodec == InitCodec /\ [][NextCodec]_vars

---------------------------------------------------------------------------
(* Properties of the record decoder and encoder (SpecCodec)                *)

\* d without one trailing line feed.
StripLF(d) == IF Len(d) > 0 /\ d[Len(d)] = LF THEN SubSeq(d, 1, Len(d) - 1) ELSE d

\* d is a record as the log reader cuts it: no line feed but a last one.
IsRecord(d) == \A i \in 1..(Len(d) - 1) : d[i] # LF

\* The number of tab-separated fields of a record, its terminator aside.
TabFields(d) == Cardinality({i \in 1..Len(StripLF(d)) : StripLF(d)[i] = TAB}) + 1

\* The first six slices of bytes are there and decode.
SixDecode(bytes) == Len(bytes) >= 6 /\ FirstBadField(bytes, 6) = 0

Failed(r, kind) == ~r.ok /\ r.err.kind = kind

\* C1: the decoder maps every action field back through the label table:
\* a field that is the label of a variant decodes to that variant ("mod
\* overwrite" to Rollback, "rollback" to Overwrite), any other action field
\* fails with UnknownAction.
C1_ActionTableInverse ==
  cpc # "start" =>
    LET bytes == Split(record)
    IN (/\ Len(bytes) >= 6
        /\ FirstBadField(bytes, 5) = 0
        /\ (Len(bytes) = 6 \/ bytes[7] = <<>>))
       => IF \E a \in PxlsAction : ActionLabel(a) = bytes[6]
          THEN decoded.ok /\ ActionLabel(decoded.val.action) = bytes[6]
          ELSE Failed(decoded, "UnknownAction")

\* C2: an event the decoder produced, encoded and decoded again, is the
\* same event in all five fields.
C2_RoundTripEvent ==
  cpc = "redecoded" => again.ok /\ again.val = decoded.val

\* C3: the encoding of a decoded record is the record, byte for byte, one
\* trailing line feed aside.
C3_RoundTripRecord ==
  cpc \in {"encoded", "redecoded"} => encoded = StripLF(record)

\* C4 as stated: a record of fewer than six tab-separated fields, with or
\* without its terminator and whatever its fields hold, fails with
\* UnexpectedEof.
C4_ShortRecordIsEof ==
  (cpc # "start" /\ IsRecord(record) /\ TabFields(record) < 6)
    => Failed(decoded, "UnexpectedEof")

\* C4 amended: a record of fewer than six tab-separated fields always fails.
\* The failure is UnexpectedEof exactly when the record has fewer than six
\* slices (cut at tabs and line feeds) and every slice present decodes as
\* its field; otherwise it is the failure of the first field that does not
\* decode, which for five good fields with the terminator attached is
\* UnknownAction on the empty sixth slice.
C4_EofIffShortAndFieldsDecode ==
  (cpc # "start" /\ IsRecord(record)) =>
    LET bytes == Split(record)
        n == Len(bytes)
        m == IF n < 6 THEN n ELSE 6
        b == FirstBadField(bytes, m)
    IN /\ TabFields(record) < 6 => ~decoded.ok
       /\ Failed(decoded, "UnexpectedEof") <=> (n < 6 /\ b = 0)
       /\ b # 0 => decoded = ReadField(b, bytes[b])
       /\ (n = 6 /\ TabFields(record) = 5 /\ FirstBadField(bytes, 5) = 0)
            => decoded = Error("UnknownAction", <<>>)

\* C4 witness: five good fields, no terminator, decoded to UnexpectedEof.
C4_Witness ==
  /\ cpc = "decoded"
  /\ record = Join(SubSeq(FieldsGood, 1, 5), TAB)
  /\ Failed(decoded, "UnexpectedEof")

\* C9 as stated: what the decoder accepts is six tab-separated fields and
\* at most one line feed after them, and a record whose six fields decode
\* and that has any non-empty slice after the sixth fails with TrailingData.
C9_OnlySixFieldsAccepted ==
  cpc # "start" =>
    LET bytes == Split(record)
    IN /\ decoded.ok => (TabFields(record) = 6 /\ IsRecord(record))
       /\ (SixDecode(bytes) /\ \E i \in 7..Len(bytes) : bytes[i] # <<>>)
            => Failed(decoded, "TrailingData")

\* C9 amended: the decoder accepts a record exactly when its first six
\* slices (cut at tabs and line feeds alike) decode and the seventh slice is
\* absent or empty, and fails with TrailingData, quoting the seventh slice,
\* exactly when the six decode and the seventh is present and not empty.
\* Slices after an empty seventh are not looked at.
C9_SeventhSliceDecides ==
  cpc # "start" =>
    LET bytes == Split(record)
        n == Len(bytes)
    IN /\ decoded.ok <=> (SixDecode(bytes) /\ (n = 6 \/ bytes[7] = <<>>))
       /\ Failed(decoded, "TrailingData") <=> (SixDecode(bytes) /\ n >= 7 /\ bytes[7] # <<>>)
       /\ Failed(decoded, "TrailingData") => decoded.err.detail = bytes[7]

\* C9 witness: a record accepted although data follows its empty seventh slice.
C9_Witness ==
  /\ cpc = "decoded"
  /\ decoded.ok
  /\ \E i \in 8..Len(Split(record)) : Split(record)[i] # <<>>

---------------------------------------------------------------------------
(* Properties of the log reader and of main (Spec)                         *)

\* The records of a stream: each ends with its line feed, the last one
\* with the stream.
RECURSIVE Records(_)
Records(stream) ==
  LET feeds == {i \in 1..Len(stream) : stream[i] = LF}
      cut == CHOOSE i \in feeds : \A j \in feeds : i <= j
  IN IF Len(stream) = 0 THEN <<>>
     ELSE IF feeds = {} THEN <<stream>>
     ELSE <<SubSeq(stream, 1, cut)>> \o Records(SubSeq(stream, cut + 1, Len(stream)))

\* The index of the first record that fails to decode, 0 if all decode.
FirstBad(recs) ==
  LET bad == {i \in 1..Len(recs) : ~parse_bytes(recs[i]).ok}
  IN IF bad = {} THEN 0 ELSE CHOOSE i \in bad : \A j \in bad : i <= j

ReadFailed == ~file.ok /\ file # NotYet

\* C5: the records are handed to the decoder in stream order, none skipped
\* and none twice; read_from returns the events of all n records in order
\* when all decode, and otherwise the error of the first record that does
\* not, with no event kept and no later record decoded.
C5_WholeOrNothing ==
  LET recs == Records(stdin)
      n == Len(recs)
      j == FirstBad(recs)
  IN /\ Len(calls) <= n
     /\ calls = SubSeq(recs, 1, Len(calls))
     /\ file # NotYet =>
          IF j = 0
          THEN /\ file.ok
               /\ calls = recs
               /\ Len(file.val) = n
               /\ \A i \in 1..n : file.val[i] = parse_bytes(recs[i]).val
          ELSE /\ ~file.ok
               /\ file.err = parse_bytes(recs[j]).err
               /\ Len(calls) = j
               /\ lines = <<>>
               /\ out = <<>>

\* C5 witness: the pass failed at a record that has decoded records before
\* it and undecoded records after it.
C5_Witness ==
  /\ ReadFailed
  /\ Len(calls) >= 2
  /\ Len(calls) < Len(Records(stdin))

ShapeOf(events, written) ==
  LET n == Len(events)
  IN /\ Len(written) = 2 * n + 3
     /\ written[1].type = "CanvasMeta"
     /\ written[2].type = "PaletteChunk"
     /\ \A i \in 1..n :
          /\ written[2 * i + 1].type = "Placement"
          /\ written[2 * i + 1].pos = events[i].pos
          /\ written[2 * i + 1].time = events[i].time
          /\ written[2 * i + 2].type = "MetaId"
          /\ written[2 * i + 2].id = events[i].id.id
     /\ written[2 * n + 3].type = "Eos"

\* C7: once main has ended on a log that was read and is not empty, without
\* an error of the output writer, the records handed over are the 2n+3
\* records of ShapeOf, in that order.
C7_OutputSequence ==
  (pc \in {"done", "panicked_size", "panicked_color_index"} /\ file.ok /\ Len(lines) > 0)
    => ShapeOf(lines, out)

\* C8: the colour index is computed for every palette index without
\* overflow, and every placement handed over carries 0 for the source
\* index 255 and the source index plus one otherwise.
C8_ColorIndex ==
  /\ pc # "panicked_color_index"
  /\ \A j \in 1..Len(out) :
       out[j].type = "Placement" =>
         LET index == lines[(j - 1) \div 2].index
         IN out[j].color_index = (IF index = 255 THEN 0 ELSE index + 1)

\* The largest of the u32 values vs.
U32Largest(vs) == CHOOSE m \in vs : \A v \in vs : ~U32Less(m, v)

\* b is a + 1, as numbers.
IsSuccessor(a, b) == a # U32_MAX /\ b = U32Succ(a)

\* C10: the size loop ends without overflow for all u32 coordinates, and
\* the size it leaves is (max x + 1, max y + 1).
C10_SizeIsMaxPlusOne ==
  /\ pc # "panicked_size"
  /\ pc \in {"write_header", "write_meta", "write_palette", "write_placement",
             "write_id", "write_eos", "done"} =>
       /\ IsSuccessor(U32Largest({lines[i].pos[1] : i \in 1..Len(lines)}), size[1])
       /\ IsSuccessor(U32Largest({lines[i].pos[2] : i \in 1..Len(lines)}), size[2])

====
